---- MODULE Spec2Model ----
(***************************************************************************)
(* Model of nabowler/expiring_gocache: the Store decorator of store.go     *)
(* over a map-backed StoreInterface (the MapStore of the test file).       *)
(*                                                                         *)
(* Time is counted in hours.  A value of type interface{} is a record      *)
(* [wraps, data]: data is the caller's datum ("nil" for a nil interface)   *)
(* and wraps is the stack of expireAt stamps of the wrappedValue structs   *)
(* around it, outermost first; <<>> means the value is no wrappedValue.    *)
(*                                                                         *)
(* State: now is the wall clock; newOptions the options New was called     *)
(* with and expiration the Store field it set; innerExpiration is the      *)
(* expiration of the decorator in between when this one is stacked on      *)
(* another (SpecNested); clearable tells whether the backing store has     *)
(* Clear; cache is the map of the backing store; get[p]                    *)
(* is where caller p stands inside Store.Get; ret is what the step just    *)
(* taken returned to its caller; hist[k] is the last event on key k, kept  *)
(* for the properties only.                                                *)
(*                                                                         *)
(* Store.Get makes two calls into the store, so it is two steps: GetLoad   *)
(* is es.store.Get with the early returns, GetCheck the comparison with    *)
(* time.Now(), the best effort delete and the return.  The other           *)
(* operations make one call and are one step each.  A call into the store  *)
(* may fail (failures and per-call expirations are tried under key "a",    *)
(* "b" being the other key), but a read of a missing key always gives the  *)
(* miss.  SpecConcurrent runs two callers of Get on one key.               *)
(***************************************************************************)
EXTENDS Integers, Sequences, FiniteSets, TLC

VARIABLES now, newOptions, expiration, innerExpiration, clearable, cache, hist, get, ret

vars == <<now, newOptions, expiration, innerExpiration, clearable, cache, hist, get, ret>>

-----------------------------------------------------------------------------
(* Bounds *)

MaxTime == 1
\* the last instant of the clock when one decorator is stacked on another
NestedMaxTime == 4

-----------------------------------------------------------------------------
(* Constants of the program *)

Hour == 1

DefaultExpiration == 720 * Hour

ExpiringStoreType == "expiring"

ValueExpiredError == "cached value has expired"

MapStoreMiss == "miss"

NoErr == "nil"

\* an error of the backing store other than its miss
StoreError == "store error"

-----------------------------------------------------------------------------
(* Inputs *)

Keys == {"a", "b"}

Data == {"v1", "v2"}

Procs == {1, 2}

\* the callers that read in Spec
Readers == {1}

\* the instants the clock is read at: the first hours, and one past the default expiration
Instants == (0..MaxTime) \cup {DefaultExpiration + MaxTime}

\* store.Options: isNil stands for a nil *store.Options
NoOptions == [isNil |-> TRUE, Expiration |-> 0]

WithExpiration(d) == [isNil |-> FALSE, Expiration |-> d]

\* the constructions New(store, options): the options and whether the store is a clearer
Constructions ==
    {[options |-> NoOptions, clearer |-> TRUE],
     [options |-> WithExpiration(0), clearer |-> TRUE],
     [options |-> WithExpiration(2 * Hour), clearer |-> FALSE]}

CallOptions == {NoOptions} \cup {WithExpiration(d) : d \in {0 - Hour, 0, Hour}}
\* per-call expirations are tried under "a" only
CallOptionsOf(key) == IF key = "a" THEN CallOptions ELSE {NoOptions}

-----------------------------------------------------------------------------
(* Values *)

NilValue == [wraps |-> <<>>, data |-> "nil"]

Raw(d) == [wraps |-> <<>>, data |-> d]

\* a plausible slip: Set hands the caller's value to the store as it is
wrappedValueBare(expireAt, value) == value

\* wrappedValue{expireAt: expireAt, value: value}
wrappedValue(expireAt, value) == [wraps |-> <<expireAt>> \o value.wraps, data |-> value.data]

\* a plausible slip: the assertion is made for *wrappedValue, which no store holds
IsWrappedPointer(val) == FALSE

\* the type assertion val.(wrappedValue)
IsWrapped(val) == Len(val.wraps) > 0

ExpireAtOf(ew) == Head(ew.wraps)

\* a plausible slip: return ew instead of ew.value
ValueOfEnvelope(ew) == ew

\* ew.value
ValueOf(ew) == [wraps |-> Tail(ew.wraps), data |-> ew.data]

CallerValues == {Raw(d) : d \in Data}

\* the values callers write under a key: both under "a", one under "b"
CallerValuesOf(key) == IF key = "a" THEN CallerValues ELSE {Raw("v1")}

ForeignValues == {Raw("f"), NilValue}

\* the values another path leaves under a key
ForeignValuesOf(key) == IF key = "a" THEN ForeignValues ELSE {Raw("f")}

ExpirationValue(options) == options.Expiration

-----------------------------------------------------------------------------
(* The backing store: MapStore, whose operations may also fail *)

\* how a read of a held key may go: well, an error with a nil value, an error
\* together with the value held
ReadFaults == {"none", "error", "value"}
\* how the read of a key may fail: tried under "a" only
ReadFaultsOf(key) == IF key = "a" THEN ReadFaults ELSE {"none"}
\* whether a write or a delete of a key fails: tried under "a" only
Faults(key) == IF key = "a" THEN BOOLEAN ELSE {FALSE}

storeGet(c, key, fail) ==
    IF key \notin DOMAIN c THEN [val |-> NilValue, err |-> MapStoreMiss]
    ELSE IF fail = "error" THEN [val |-> NilValue, err |-> StoreError]
    ELSE IF fail = "value" THEN [val |-> c[key], err |-> StoreError]
    ELSE [val |-> c[key], err |-> NoErr]

storeSet(c, key, value) ==
    [x \in DOMAIN c \cup {key} |-> IF x = key THEN value ELSE c[x]]

storeDelete(c, key) ==
    [x \in DOMAIN c \ {key} |-> c[x]]

storeClear(c) ==
    [x \in {} |-> NilValue]

-----------------------------------------------------------------------------
(* The decorator's pure parts *)

New(options) ==
    IF options.isNil THEN DefaultExpiration ELSE ExpirationValue(options)

\* a plausible slip: a zero per-call expiration is taken as an override
SetExpireAtNonNegative(options) ==
    IF ~options.isNil /\ ExpirationValue(options) >= 0
    THEN now + ExpirationValue(options)
    ELSE now + expiration

\* a plausible slip: the per-call expiration is not looked at
SetExpireAtDefaultOnly(options) == now + expiration

\* time.Now().Add(es.expiration), or time.Now().Add(options.ExpirationValue())
SetExpireAt(options) ==
    IF ~options.isNil /\ ExpirationValue(options) > 0
    THEN now + ExpirationValue(options)
    ELSE now + expiration

\* expireAt as Set computes it in a decorator that is the backing store of this one
InnerSetExpireAt(options) ==
    IF ~options.isNil /\ ExpirationValue(options) > 0
    THEN now + ExpirationValue(options)
    ELSE now + innerExpiration

\* a plausible slip: time.Now().Before(ew.expireAt)
BeforeSwapped(expireAt, t) == t < expireAt

\* a plausible slip: !ew.expireAt.After(t)
BeforeOrEqual(expireAt, t) == expireAt <= t

\* ew.expireAt.Before(t)
Before(expireAt, t) == expireAt < t

\* a plausible slip: only a nil value without error is handed back early
PropagatesNilOnly(r) == r.err = NoErr /\ r.val = NilValue

\* a plausible slip: the error of es.store.Get is not looked at
PropagatesNilValue(r) == r.val = NilValue

\* err != nil || val == nil: the result of es.store.Get is handed back as it is
Propagates(r) == r.err # NoErr \/ r.val = NilValue

\* a plausible slip: the expired entry is never deleted
CleanupNothing(c, key, fail) == c

\* a plausible slip: the cleanup empties the store
CleanupAll(c, key, fail) == IF fail THEN c ELSE storeClear(c)

\* a plausible slip: the expired entry is stored again instead of deleted
CleanupRenews(c, key, fail) ==
    IF fail \/ key \notin DOMAIN c THEN c
    ELSE IF ~IsWrapped(c[key]) THEN c
    ELSE storeSet(c, key, wrappedValue(now + DefaultExpiration + Hour, ValueOf(c[key])))

\* _ = es.store.Delete(key): the store after the best effort delete
Cleanup(c, key, fail) == IF fail THEN c ELSE storeDelete(c, key)


-----------------------------------------------------------------------------
(* History kept for the properties: the last event that touched each key *)

\* "never", "deleted", "cleared", "cleaned" (removed by the cleanup of a Get), "foreign"
\* exp tells whether a Get has returned the expired signal for k since the last
\* write of k: "no"; "this", for the entry k holds; "older", for an entry that
\* had been overwritten before that Get returned
NoHist(kind) == [kind |-> kind, at |-> 0, ttl |-> 0, v |-> NilValue, exp |-> "no"]

\* the ttl a Set with these options is to apply
EffectiveTtl(options) ==
    IF options.isNil THEN expiration
    ELSE IF options.Expiration >= 1 THEN options.Expiration
    ELSE expiration

\* the last event was a successful Set of v at time at
Written(at, options, v) ==
    [kind |-> "written", at |-> at, ttl |-> EffectiveTtl(options), v |-> v, exp |-> "no"]

\* the history of a key whose entry is cur after a Get that had read the entry
\* seen returned the expired signal and its delete failed
Reported(cur, seen) ==
    IF cur.kind # "written" THEN cur
    ELSE IF [cur EXCEPT !.exp = "no"] = [seen EXCEPT !.exp = "no"] THEN [cur EXCEPT !.exp = "this"]
    ELSE IF cur.exp = "no" THEN [cur EXCEPT !.exp = "older"]
    ELSE cur

\* a caller that is not inside Store.Get
IdleGet == [pc |-> "idle", key |-> "a", sval |-> NilValue, serr |-> NoErr,
            h |-> NoHist("never")]

\* what the step just taken returned to its caller, if it returned
\* (sval, serr is what the primary call into the store returned, derr what the
\* cleanup delete returned, t the time read, h the history of the key when read,
\* prev whether the step before was the return of another Get which had read
\* the same entry and returned the expired signal, over what a Set replaced)
NoRet == [op |-> "none", key |-> "a", val |-> NilValue, err |-> NoErr, calls |-> <<>>,
          sval |-> NilValue, serr |-> NoErr, derr |-> NoErr, t |-> 0, h |-> NoHist("never"),
          prev |-> "none", over |-> "none"]

GetRet(key, val, err, calls, sval, serr, t, h) ==
    [op |-> "Get", key |-> key, val |-> val, err |-> err, calls |-> calls,
     sval |-> sval, serr |-> serr, derr |-> NoErr, t |-> t, h |-> h, prev |-> "none",
     over |-> "none"]

\* what a Set of key with this expireAt replaces: nothing of an earlier Set, or
\* the entry of one, which had expired, or was to expire sooner, or not sooner
Over(key, expireAt) ==
    IF hist[key].kind # "written" THEN "none"
    ELSE IF hist[key].at + hist[key].ttl < now THEN "expired"
    ELSE IF hist[key].at + hist[key].ttl < expireAt THEN "sooner"
    ELSE "later"

\* what prev is for the Get of key that returns next, having read the entry seen
Prev(key, seen) ==
    IF ret.op = "Get" /\ ret.key = key /\ ret.err = ValueExpiredError /\ ret.h = seen
    THEN "expired" ELSE "none"

OpRet(op, key, err, calls) ==
    [NoRet EXCEPT !.op = op, !.key = key, !.err = err, !.serr = err, !.calls = calls]

FailErr(fail) == IF fail THEN StoreError ELSE NoErr

-----------------------------------------------------------------------------

Init ==
    /\ now = 0
    /\ \E c \in Constructions : newOptions = c.options /\ clearable = c.clearer
    /\ expiration = New(newOptions)
    /\ innerExpiration = 0
    /\ cache = storeClear(<<>>)
    /\ hist = [k \in Keys |-> NoHist("never")]
    /\ get = [p \in Procs |-> IdleGet]
    /\ ret = NoRet

\* time.Now() moves forward
Advance ==
    /\ \E t \in Instants : t > now /\ now' = t
    /\ ret' = NoRet
    /\ UNCHANGED <<newOptions, expiration, innerExpiration, clearable, cache, hist, get>>

\* a plausible slip: when the type assertion fails, ew.value is returned instead of val
GetLoadReturnsZero(p, key) ==
    /\ get[p].pc = "idle"
    /\ \E fail \in ReadFaultsOf(key) :
         LET r == storeGet(cache, key, fail)
         IN  IF Propagates(r)
             THEN /\ ret' = GetRet(key, r.val, r.err, <<"Get">>, r.val, r.err, now, hist[key])
                  /\ get' = get
             ELSE IF ~IsWrapped(r.val)
             THEN /\ ret' = GetRet(key, NilValue, NoErr, <<"Get">>, r.val, r.err, now, hist[key])
                  /\ get' = get
             ELSE /\ ret' = NoRet
                  /\ get' = [get EXCEPT ![p] =
                         [pc |-> "check", key |-> key, sval |-> r.val, serr |-> r.err,
                          h |-> hist[key]]]
    /\ UNCHANGED <<now, newOptions, expiration, innerExpiration, clearable, cache, hist>>

\* Store.Get up to the type assertion: es.store.Get and the two early returns
GetLoad(p, key) ==
    /\ get[p].pc = "idle"
    /\ \E fail \in ReadFaultsOf(key) :
         LET r == storeGet(cache, key, fail)
         IN  IF Propagates(r)
             THEN /\ ret' = GetRet(key, r.val, r.err, <<"Get">>, r.val, r.err, now, hist[key])
                  /\ get' = get
             ELSE IF ~IsWrapped(r.val)
             THEN /\ ret' = GetRet(key, r.val, NoErr, <<"Get">>, r.val, r.err, now, hist[key])
                  /\ get' = get
             ELSE /\ ret' = NoRet
                  /\ get' = [get EXCEPT ![p] =
                         [pc |-> "check", key |-> key, sval |-> r.val, serr |-> r.err,
                          h |-> hist[key]]]
    /\ UNCHANGED <<now, newOptions, expiration, innerExpiration, clearable, cache, hist>>

\* a plausible slip: the error of the cleanup delete is returned to the caller
GetCheckReturnsDeleteError(p) ==
    /\ get[p].pc = "check"
    /\ LET key == get[p].key
           ew == get[p].sval
       IN  IF Before(ExpireAtOf(ew), now)
           THEN \E fail \in Faults(key) :
                  /\ cache' = Cleanup(cache, key, fail)
                  /\ hist' = [hist EXCEPT ![key] =
                         IF fail THEN Reported(@, get[p].h) ELSE NoHist("cleaned")]
                  /\ ret' = [GetRet(key, IF fail THEN NilValue ELSE ValueOf(ew),
                                    IF fail THEN StoreError ELSE ValueExpiredError,
                                    <<"Get", "Delete">>, ew, get[p].serr, now, get[p].h)
                                EXCEPT !.derr = FailErr(fail), !.prev = Prev(key, get[p].h)]
           ELSE /\ ret' = GetRet(key, ValueOf(ew), NoErr, <<"Get">>, ew, get[p].serr, now,
                                 get[p].h)
                /\ UNCHANGED <<cache, hist>>
    /\ get' = [get EXCEPT ![p] = IdleGet]
    /\ UNCHANGED <<now, newOptions, expiration, innerExpiration, clearable>>

\* a plausible slip: a live read stores the entry again with a fresh expireAt
GetCheckTouches(p) ==
    /\ get[p].pc = "check"
    /\ LET key == get[p].key
           ew == get[p].sval
       IN  IF Before(ExpireAtOf(ew), now)
           THEN \E fail \in Faults(key) :
                  /\ cache' = Cleanup(cache, key, fail)
                  /\ hist' = [hist EXCEPT ![key] =
                         IF fail THEN Reported(@, get[p].h) ELSE NoHist("cleaned")]
                  /\ ret' = [GetRet(key, ValueOf(ew), ValueExpiredError, <<"Get", "Delete">>,
                                    ew, get[p].serr, now, get[p].h)
                                EXCEPT !.derr = FailErr(fail), !.prev = Prev(key, get[p].h)]
           ELSE /\ ret' = GetRet(key, ValueOf(ew), NoErr, <<"Get">>, ew, get[p].serr, now,
                                 get[p].h)
                /\ cache' = storeSet(cache, key,
                               wrappedValue(now + expiration + Hour, ValueOf(ew)))
                /\ hist' = hist
    /\ get' = [get EXCEPT ![p] = IdleGet]
    /\ UNCHANGED <<now, newOptions, expiration, innerExpiration, clearable>>

\* Store.Get from the comparison with time.Now() on: the live return, or the
\* best effort delete and the return of ValueExpiredError
GetCheck(p) ==
    /\ get[p].pc = "check"
    /\ LET key == get[p].key
           ew == get[p].sval
       IN  IF Before(ExpireAtOf(ew), now)
           THEN \E fail \in Faults(key) :
                  /\ cache' = Cleanup(cache, key, fail)
                  /\ hist' = [hist EXCEPT ![key] =
                         IF fail THEN Reported(@, get[p].h) ELSE NoHist("cleaned")]
                  /\ ret' = [GetRet(key, ValueOf(ew), ValueExpiredError, <<"Get", "Delete">>,
                                    ew, get[p].serr, now, get[p].h)
                                EXCEPT !.derr = FailErr(fail), !.prev = Prev(key, get[p].h)]
           ELSE /\ ret' = GetRet(key, ValueOf(ew), NoErr, <<"Get">>, ew, get[p].serr, now,
                                 get[p].h)
                /\ UNCHANGED <<cache, hist>>
    /\ get' = [get EXCEPT ![p] = IdleGet]
    /\ UNCHANGED <<now, newOptions, expiration, innerExpiration, clearable>>

Set(key, value, options) ==
    /\ \E fail \in Faults(key) :
         LET expireAt == SetExpireAt(options)
         IN  /\ cache' = IF fail THEN cache
                         ELSE storeSet(cache, key, wrappedValue(expireAt, value))
             /\ hist' = IF fail THEN hist
                        ELSE [hist EXCEPT ![key] = Written(now, options, value)]
             /\ ret' = [OpRet("Set", key, FailErr(fail), <<"Set">>)
                           EXCEPT !.over = IF fail THEN "none" ELSE Over(key, expireAt)]
    /\ UNCHANGED <<now, newOptions, expiration, innerExpiration, clearable, get>>

\* a plausible slip: Delete reports success without reaching the store
DeleteNothing(key) ==
    /\ hist' = [hist EXCEPT ![key] = NoHist("deleted")]
    /\ ret' = OpRet("Delete", key, NoErr, <<"Delete">>)
    /\ UNCHANGED <<now, newOptions, expiration, innerExpiration, clearable, cache, get>>

Delete(key) ==
    /\ \E fail \in Faults(key) :
         /\ cache' = IF fail THEN cache ELSE storeDelete(cache, key)
         /\ hist' = IF fail THEN hist ELSE [hist EXCEPT ![key] = NoHist("deleted")]
         /\ ret' = OpRet("Delete", key, FailErr(fail), <<"Delete">>)
    /\ UNCHANGED <<now, newOptions, expiration, innerExpiration, clearable, get>>

Invalidate ==
    /\ \E fail \in BOOLEAN :
         ret' = OpRet("Invalidate", "a", FailErr(fail), <<"Invalidate">>)
    /\ UNCHANGED <<now, newOptions, expiration, innerExpiration, clearable, cache, hist, get>>

\* a plausible slip: Clear is called without the probe
IsClearerAlways == TRUE

\* the probe es.store.(clearer)
IsClearer == clearable

Clear ==
    /\ IF IsClearer
       THEN \E fail \in BOOLEAN :
              /\ cache' = IF fail THEN cache ELSE storeClear(cache)
              /\ hist' = IF fail THEN hist
                         ELSE [k \in Keys |-> IF hist[k].kind = "never" THEN hist[k]
                                              ELSE NoHist("cleared")]
              /\ ret' = OpRet("Clear", "a", FailErr(fail), <<"Clear">>)
       ELSE /\ ret' = OpRet("Clear", "a", NoErr, <<>>)
            /\ UNCHANGED <<cache, hist>>
    /\ UNCHANGED <<now, newOptions, expiration, innerExpiration, clearable, get>>

\* a plausible slip: the type is asked of the backing store
GetTypeOfStore ==
    /\ ret' = [OpRet("GetType", "a", NoErr, <<"GetType">>) EXCEPT !.val = Raw("map")]
    /\ UNCHANGED <<now, newOptions, expiration, innerExpiration, clearable, cache, hist, get>>

\* return ExpiringStoreType
GetType ==
    /\ ret' = [OpRet("GetType", "a", NoErr, <<>>) EXCEPT !.val = Raw(ExpiringStoreType)]
    /\ UNCHANGED <<now, newOptions, expiration, innerExpiration, clearable, cache, hist, get>>

\* another path puts a value that is no wrappedValue straight into the backing store
ForeignSet(key, value) ==
    /\ cache' = storeSet(cache, key, value)
    /\ hist' = [hist EXCEPT ![key] = NoHist("foreign")]
    /\ ret' = NoRet
    /\ UNCHANGED <<now, newOptions, expiration, innerExpiration, clearable, get>>

Next ==
    \/ Advance
    \/ \E p \in Readers, key \in Keys : GetLoad(p, key)
    \/ \E p \in Readers : GetCheck(p)
    \/ \E key \in Keys : \E value \in CallerValuesOf(key), options \in CallOptionsOf(key) :
          Set(key, value, options)
    \/ \E key \in Keys : Delete(key)
    \/ Invalidate
    \/ Clear
    \/ GetType
    \/ \E key \in Keys : \E value \in ForeignValuesOf(key) : ForeignSet(key, value)

Spec == Init /\ [][Next]_vars

\* two callers of Get on one key, with the Sets that may fall between their steps
NextConcurrent ==
    \/ Advance
    \/ \E p \in Procs : GetLoad(p, "a")
    \/ \E p \in Procs : GetCheck(p)
    \/ \E value \in CallerValuesOf("a"), options \in CallOptions : Set("a", value, options)

SpecConcurrent == Init /\ [][NextConcurrent]_vars

-----------------------------------------------------------------------------
(* A decorator whose backing store is another decorator over the MapStore.   *)
(* expiration is the outer decorator's, innerExpiration the inner one's; the  *)
(* outer decorator's calls of Get, Set and Delete are the inner decorator's   *)
(* operations, and each operation runs to its end in one step.                *)

NestedOptions == {NoOptions, WithExpiration(Hour), WithExpiration(3 * Hour)}

\* the ttl the inner decorator's Set is to apply
InnerTtl(options) ==
    IF options.isNil THEN innerExpiration
    ELSE IF options.Expiration >= 1 THEN options.Expiration
    ELSE innerExpiration

\* Store.Get of a decorator at time t, r being what its es.store.Get(key)
\* returned and c the MapStore underneath after that call
DecoratedGet(r, c, key, t) ==
    IF Propagates(r) THEN [val |-> r.val, err |-> r.err, cache |-> c]
    ELSE IF ~IsWrapped(r.val) THEN [val |-> r.val, err |-> NoErr, cache |-> c]
    ELSE IF Before(ExpireAtOf(r.val), t)
    THEN [val |-> ValueOf(r.val), err |-> ValueExpiredError, cache |-> storeDelete(c, key)]
    ELSE [val |-> ValueOf(r.val), err |-> NoErr, cache |-> c]

InitNested ==
    /\ now = 0
    /\ \E outer \in NestedOptions, inner \in NestedOptions :
          /\ newOptions = outer
          /\ expiration = New(outer)
          /\ innerExpiration = New(inner)
    /\ clearable = TRUE
    /\ cache = storeClear(<<>>)
    /\ hist = [k \in Keys |-> NoHist("never")]
    /\ get = [p \in Procs |-> IdleGet]
    /\ ret = NoRet

NestedAdvance ==
    /\ now < NestedMaxTime
    /\ now' = now + 1
    /\ ret' = NoRet
    /\ UNCHANGED <<newOptions, expiration, innerExpiration, clearable, cache, hist, get>>

\* the outer Set wraps the value and hands it, with the same options, to the
\* inner Set, which wraps it again
NestedSet(key, value, options) ==
    /\ cache' = storeSet(cache, key,
                   wrappedValue(InnerSetExpireAt(options),
                                wrappedValue(SetExpireAt(options), value)))
    /\ hist' = [hist EXCEPT ![key] =
                  [kind |-> "written", at |-> now, ttl |-> EffectiveTtl(options),
                   ittl |-> InnerTtl(options), v |-> value, exp |-> "no"]]
    /\ ret' = OpRet("Set", key, NoErr, <<"Set">>)
    /\ UNCHANGED <<now, newOptions, expiration, innerExpiration, clearable, get>>

\* the outer Get applied to what the inner Get returns
NestedGet(key) ==
    LET r == storeGet(cache, key, "none")
        inner == DecoratedGet(r, cache, key, now)
        outer == DecoratedGet([val |-> inner.val, err |-> inner.err], inner.cache, key, now)
    IN  /\ cache' = outer.cache
        /\ hist' = IF outer.cache = cache THEN hist
                   ELSE [hist EXCEPT ![key] = NoHist("cleaned")]
        /\ ret' = GetRet(key, outer.val, outer.err, <<"Get">>, inner.val, inner.err,
                         now, hist[key])
        /\ UNCHANGED <<now, newOptions, expiration, innerExpiration, clearable, get>>

NextNested ==
    \/ NestedAdvance
    \/ \E value \in CallerValuesOf("a"), options \in CallOptions :
          NestedSet("a", value, options)
    \/ NestedGet("a")

SpecNested == InitNested /\ [][NextNested]_vars

TypeOK ==
    /\ now \in Instants \cup (0..NestedMaxTime)
    /\ DOMAIN cache \subseteq Keys
    /\ \A p \in Procs : get[p].pc \in {"idle", "check"}


-----------------------------------------------------------------------------
(* Properties *)

\* a Get has just returned
Returned == ret.op = "Get"

\* the Get that has just returned read k after a successful Set and nothing else since
ReadWritten == Returned /\ ret.h.kind = "written" /\ ret.serr = NoErr

\* C1: a Get of k made after a successful Set(k, v) with a ttl > 0, with nothing
\* else having touched k since and the store's read handing the entry back,
\* returns exactly v with no error while less than ttl has elapsed since the Set.
C1_LiveReadReturnsValue ==
    (ReadWritten /\ ret.h.ttl > 0 /\ ret.t < ret.h.at + ret.h.ttl)
        => (ret.val = ret.h.v /\ ret.err = NoErr)

\* a Get returned v after time has passed, but less than the ttl
C1_Witness ==
    /\ ReadWritten /\ ret.h.ttl > 0
    /\ ret.t > ret.h.at /\ ret.t < ret.h.at + ret.h.ttl
    /\ ret.val = ret.h.v /\ ret.err = NoErr /\ ret.val \in CallerValues

\* the first Get made more than ttl after the Set returns the stale v with the expired signal
FirstReadExpired ==
    (ReadWritten /\ ret.h.ttl > 0 /\ ret.t > ret.h.at + ret.h.ttl)
        => (ret.val = ret.h.v /\ ret.err = ValueExpiredError)

\* C2 as stated: after a Set and more than ttl, the first Get returns the expired
\* signal with the stale value, and the Get that follows a Get which returned the
\* expired signal returns the store's absent signal, whatever the backing store.
C2_ExpiredExactlyOnce ==
    /\ []FirstReadExpired
    /\ [][\A p \in Procs :
            (Returned /\ ret.err = ValueExpiredError /\ GetLoad(p, ret.key))
                => (ret'.op = "Get" /\ ret'.err = MapStoreMiss)]_vars

\* C2 amended: after a Set and more than ttl, the first Get returns the expired
\* signal with the stale value; a Get made after a Get whose cleanup delete
\* succeeded, with no Set in between, returns the store's absent signal and
\* not the expired signal.
C2_ExpiredOnceWhenCleaned ==
    /\ FirstReadExpired
    /\ (Returned /\ ret.h.kind = "cleaned")
          => (ret.val = NilValue /\ ret.err = MapStoreMiss)

\* the second Get after an expiry has returned the miss
C2_Witness ==
    /\ Returned /\ ret.h.kind = "cleaned"
    /\ ret.val = NilValue /\ ret.err = MapStoreMiss

\* the store's read succeeded with a wrappedValue that expired before the comparison
ReadExpiredEntry ==
    /\ ret.serr = NoErr
    /\ ret.sval # NilValue
    /\ IsWrapped(ret.sval)
    /\ ExpireAtOf(ret.sval) < ret.t

\* C3: a Get returns the expired signal exactly when the store's read succeeded
\* with a wrappedValue whose expireAt is strictly before the current time; a
\* wrappedValue read at exactly its expireAt is returned live with no error.
C3_ExpiredIffStrictlyPast ==
    Returned =>
        /\ (ret.err = ValueExpiredError) <=> ReadExpiredEntry
        /\ (ret.serr = NoErr /\ IsWrapped(ret.sval) /\ ExpireAtOf(ret.sval) = ret.t)
              => (ret.err = NoErr /\ ret.val = ValueOf(ret.sval))

\* a Get at exactly expireAt returned the live value
C3_Witness ==
    /\ ReadWritten /\ ret.h.ttl > 0 /\ IsWrapped(ret.sval)
    /\ ExpireAtOf(ret.sval) = ret.t
    /\ ret.err = NoErr /\ ret.val \in CallerValues

\* C4: a successful Set(k, v, options) at time t stores under k the wrappedValue
\* {t + ttl, v}, ttl being the per-call expiration when options are given and it
\* is strictly positive, and the decorator's expiration in every other case.
C4_SetStoresExpireAt ==
    \A k \in Keys :
        hist[k].kind = "written"
            => /\ k \in DOMAIN cache
               /\ cache[k] = wrappedValue(hist[k].at + hist[k].ttl, hist[k].v)

\* a Set with a per-call expiration and a Set without one have both just stored
C4_Witness ==
    /\ ret.op = "Set" /\ ret.err = NoErr
    /\ hist["a"].kind = "written" /\ hist["b"].kind = "written"
    /\ hist["a"].ttl = Hour /\ hist["b"].ttl = expiration
    /\ expiration # Hour /\ expiration # 0


\* C5 as stated: New leaves the decorator with the default expiration of 720
\* hours both when no options are passed and when the options passed have no
\* expiration set (zero).
C5_DefaultWhenNoExpiration ==
    (newOptions.isNil \/ ExpirationValue(newOptions) = 0) => expiration = 720 * Hour

\* k holds after the step what it held before it
SameEntry(k) ==
    /\ (k \in DOMAIN cache) <=> (k \in DOMAIN cache')
    /\ (k \in DOMAIN cache) => (cache'[k] = cache[k])

\* C6: entries of different keys expire independently: the step of a Get that
\* ends it, its cleanup delete included, leaves the entry of every other key as
\* it was, and after the cleanup of an expired key a Get of another key b still
\* returns b's value with no error until b's own expireAt has passed.
C6_KeysExpireIndependently ==
    /\ [][\A p \in Procs :
            (get[p].pc = "check" /\ get'[p].pc = "idle")
                => \A b \in Keys \ {get[p].key} : SameEntry(b)]_vars
    /\ []((ReadWritten /\ ret.t <= ret.h.at + ret.h.ttl
             /\ \E a \in Keys \ {ret.key} : hist[a].kind = "cleaned")
            => (ret.val = ret.h.v /\ ret.err = NoErr))

\* "a" has expired and been cleaned up, and a later Get of "b" returned b's value
C6_Witness ==
    /\ ReadWritten /\ ret.key = "b" /\ ret.t > ret.h.at
    /\ ret.val = ret.h.v /\ ret.err = NoErr
    /\ hist["a"].kind = "cleaned"

\* C7: after a successful Delete(k) and until the next Set(k), k is absent from
\* the store and every Get(k), at whatever time, returns the store's absent
\* signal and never the expired signal.
C7_DeletedReadsAbsent ==
    /\ \A k \in Keys : hist[k].kind = "deleted" => k \notin DOMAIN cache
    /\ (Returned /\ ret.h.kind = "deleted")
          => (ret.val = NilValue /\ ret.err = MapStoreMiss)

\* a Get made long after a Delete returned the miss
C7_Witness ==
    /\ Returned /\ ret.h.kind = "deleted" /\ ret.err = MapStoreMiss
    /\ ret.t >= DefaultExpiration

\* C8: a Get of a key that has never been written returns the store's own
\* absent result (nil value, the store's miss) unchanged, never the expired
\* signal, and makes no delete.
C8_NeverWrittenReadsAbsent ==
    (Returned /\ ret.h.kind = "never")
        => /\ ret.val = NilValue /\ ret.err = MapStoreMiss
           /\ ret.calls = <<"Get">>
           /\ ret.key \notin DOMAIN cache

\* a Get of a key never written returned the miss while another key is stored
C8_Witness ==
    /\ Returned /\ ret.h.kind = "never" /\ ret.err = MapStoreMiss
    /\ \E k \in Keys \ {ret.key} : hist[k].kind = "written"

\* C9: when the store holds under k a value that is no wrappedValue and its
\* read hands it back, Get(k) returns that value unchanged with no error, at any
\* time, makes no delete and leaves the entry in the store.
C9_ForeignValuePassesThrough ==
    (Returned /\ ret.h.kind = "foreign" /\ ret.serr = NoErr)
        => /\ ret.val = ret.sval /\ ret.err = NoErr
           /\ ret.calls = <<"Get">>
           /\ ret.key \in DOMAIN cache /\ cache[ret.key] = ret.sval

\* a Get returned a foreign value long after it was put there
C9_Witness ==
    /\ Returned /\ ret.h.kind = "foreign" /\ ret.serr = NoErr
    /\ ret.val = Raw("f") /\ ret.err = NoErr
    /\ ret.t >= DefaultExpiration

\* C10: Clear on a store that is a clearer calls its Clear once and, when that
\* succeeds, leaves the store empty, so that a Get of a key written before
\* returns the absent signal; Clear on a store that is no clearer returns
\* success, calls nothing and leaves every entry as it was.
C10_ClearProbesTheStore ==
    /\ [](ret.op = "Clear" =>
            IF clearable THEN ret.calls = <<"Clear">>
            ELSE ret.calls = <<>> /\ ret.err = NoErr)
    /\ [][ret'.op = "Clear" =>
            IF clearable THEN (ret'.err = NoErr => DOMAIN cache' = {})
            ELSE cache' = cache]_vars
    /\ []((Returned /\ ret.h.kind = "cleared")
            => (ret.val = NilValue /\ ret.err = MapStoreMiss))

\* a Get of a key written before a Clear returned the miss
C10_Witness ==
    /\ Returned /\ ret.h.kind = "cleared" /\ ret.err = MapStoreMiss
    /\ clearable

\* Clear on a store that is no clearer has returned with both keys still stored
C10_NonClearerReached ==
    ret.op = "Clear" /\ ~clearable /\ DOMAIN cache = Keys

\* C11: the error of the store's Set, Delete, Invalidate or Clear is what the
\* decorator's operation returns; when the store's read fails, Get returns the
\* store's value and error as they are, makes no delete and leaves the store
\* as it was.
C11_StoreErrorsReturned ==
    /\ [](ret.op \in {"Set", "Delete", "Invalidate", "Clear"} => ret.err = ret.serr)
    /\ []((Returned /\ ret.serr # NoErr)
            => (ret.err = ret.serr /\ ret.val = ret.sval /\ ret.calls = <<"Get">>))
    /\ [][(ret'.op = "Get" /\ ret'.serr # NoErr) => cache' = cache]_vars

\* a failed read handed back an expired wrappedValue, which Get returned with
\* the store's error, leaving the entry where it was
C11_Witness ==
    /\ Returned /\ ret.serr = StoreError /\ ret.err = StoreError
    /\ IsWrapped(ret.sval) /\ ExpireAtOf(ret.sval) < ret.t /\ ret.val = ret.sval
    /\ ret.key \in DOMAIN cache /\ cache[ret.key] = ret.sval

\* C12: when the delete of an expired entry fails, Get still returns the stale
\* value with the expired signal and not the delete's error, having called
\* Delete once; the store is left as it was, and every later Get of the key
\* whose read hands the entry back returns the expired signal with that value
\* again, until the key is written again.
C12_FailedCleanupKeepsExpiring ==
    /\ []((Returned /\ ret.derr # NoErr)
            => /\ ret.err = ValueExpiredError /\ ret.val = ValueOf(ret.sval)
               /\ ret.calls = <<"Get", "Delete">>)
    /\ [][(ret'.op = "Get" /\ ret'.derr # NoErr) => cache' = cache]_vars
    /\ []((Returned /\ ret.h.exp = "this" /\ ret.serr = NoErr)
            => (ret.err = ValueExpiredError /\ ret.val = ret.h.v))

\* a Get whose delete failed is followed by another Get of the key, which
\* returned the expired signal with the value again, its delete failing too
C12_Witness ==
    /\ Returned /\ ret.h.exp = "this" /\ ret.derr = StoreError
    /\ ret.err = ValueExpiredError /\ ret.val = ret.h.v /\ ret.val \in CallerValues
    /\ ret.key \in DOMAIN cache /\ cache[ret.key] = ret.sval

\* C13: no operation calls the store more than twice: Get calls the store's Get
\* once, and its Delete once exactly when that read succeeded with an expired
\* wrappedValue; Set, Delete and Invalidate call the store's operation of the
\* same name once and nothing else; New and GetType call nothing and leave the
\* store as it is.
C13_CallsIntoTheStore ==
    /\ cache = storeClear(<<>>) /\ ret.calls = <<>>
    /\ [](/\ Len(ret.calls) <= 2
          /\ Returned => ret.calls = IF ReadExpiredEntry THEN <<"Get", "Delete">>
                                     ELSE <<"Get">>
          /\ ret.op \in {"Set", "Delete", "Invalidate"} => ret.calls = <<ret.op>>
          /\ ret.op = "GetType" => ret.calls = <<>>)
    /\ [][ret'.op \in {"Invalidate", "GetType"} => cache' = cache]_vars

\* a Get has read an expired entry and deleted it, in two calls
C13_Witness ==
    /\ Returned /\ ReadExpiredEntry /\ ret.calls = <<"Get", "Delete">>
    /\ ret.derr = NoErr /\ ret.key \notin DOMAIN cache

\* C14: with two Gets of one key in flight at once, each Get that read an entry
\* already expired, or found the key cleaned up by the other, returns either the
\* stale value with the expired signal or the store's miss, never a value
\* without error; and when a Get has returned the expired signal after a
\* successful delete, the key is absent from the store.
C14_ConcurrentExpiredReads ==
    /\ (Returned /\ ret.serr # StoreError
          /\ \/ ret.h.kind = "written" /\ ret.t > ret.h.at + ret.h.ttl
             \/ ret.h.kind = "cleaned")
         => \/ ret.err = ValueExpiredError /\ ret.val = ret.h.v
            \/ ret.err = MapStoreMiss /\ ret.val = NilValue
    /\ (Returned /\ ret.err = ValueExpiredError /\ ret.derr = NoErr)
         => ret.key \notin DOMAIN cache

\* two Gets read the same expired entry before either deleted it; both have
\* returned the stale value with the expired signal and the key is gone
C14_Witness ==
    /\ Returned /\ ret.prev = "expired" /\ ret.h.kind = "written"
    /\ ret.err = ValueExpiredError /\ ret.val = ret.h.v /\ ret.val \in CallerValues
    /\ ret.derr = NoErr /\ ret.key \notin DOMAIN cache

\* the Get of the outer of two decorators has returned, having read an entry
\* left by the outer Set
NestedReadWritten == Returned /\ ret.h.kind = "written"

\* C15 as stated: with one decorator stacked on another, a Get after a Set of v
\* returns exactly v with no error while the ttl the outer decorator chose has
\* not elapsed, and the expired signal once it has.
C15_NestedAsOuterAlone ==
    /\ (NestedReadWritten /\ ret.t < ret.h.at + ret.h.ttl)
          => (ret.val = ret.h.v /\ ret.err = NoErr)
    /\ (NestedReadWritten /\ ret.t > ret.h.at + ret.h.ttl)
          => ret.err = ValueExpiredError

\* C15 amended: a Get after a Set of v returns exactly v with no error while
\* neither the ttl the outer decorator chose nor the one the inner decorator
\* chose has elapsed; it returns the expired signal once either has, with v when
\* only the outer one has and with the outer decorator's wrappedValue of v when
\* the inner one has.
C15_NestedUntilEitherExpires ==
    /\ (NestedReadWritten /\ ret.t < ret.h.at + ret.h.ttl /\ ret.t < ret.h.at + ret.h.ittl)
          => (ret.val = ret.h.v /\ ret.err = NoErr)
    /\ (NestedReadWritten /\ ret.t > ret.h.at + ret.h.ttl /\ ret.t <= ret.h.at + ret.h.ittl)
          => (ret.val = ret.h.v /\ ret.err = ValueExpiredError)
    /\ (NestedReadWritten /\ ret.t > ret.h.at + ret.h.ittl)
          => /\ ret.err = ValueExpiredError
             /\ IsWrapped(ret.val) /\ ret.val.data = ret.h.v.data
             /\ ExpireAtOf(ret.val) = ret.h.at + ret.h.ttl

\* with different expirations in the two decorators, a Get made after time has
\* passed returned exactly v with no error
C15_Witness ==
    /\ NestedReadWritten /\ expiration # innerExpiration
    /\ ret.t > ret.h.at /\ ret.t < ret.h.at + ret.h.ttl /\ ret.t < ret.h.at + ret.h.ittl
    /\ ret.val = ret.h.v /\ ret.err = NoErr /\ ret.val \in CallerValues

\* the inner decorator's ttl ran out before the outer one's, and the Get
\* returned the outer decorator's wrappedValue with the expired signal
C15_EnvelopeReturned ==
    /\ NestedReadWritten /\ ret.t < ret.h.at + ret.h.ttl /\ ret.t > ret.h.at + ret.h.ittl
    /\ ret.err = ValueExpiredError /\ IsWrapped(ret.val)

\* C16: in every reachable state the entry left by a successful Set(k, v) is a
\* wrappedValue whose value is v, and every entry that no other path put into
\* the store is a wrappedValue; a step changes what a key holds only when it is
\* a Set of that key (or the other path's write), so that no Get, Delete,
\* Invalidate, Clear or GetType alters a stored expireAt or value.
C16_OnlyWrappedValuesStored ==
    /\ [](\A k \in Keys :
            /\ hist[k].kind = "written"
                  => /\ k \in DOMAIN cache /\ IsWrapped(cache[k])
                     /\ ValueOf(cache[k]) = hist[k].v
                     /\ ExpireAtOf(cache[k]) = hist[k].at + hist[k].ttl
            /\ (k \in DOMAIN cache /\ hist[k].kind # "foreign") => IsWrapped(cache[k]))
    /\ [][\A k \in Keys :
            (k \in DOMAIN cache /\ k \in DOMAIN cache' /\ cache'[k] # cache[k])
                => \/ ret'.op = "Set" /\ ret'.key = k /\ ret'.err = NoErr
                   \/ hist'[k].kind = "foreign"]_vars

\* a Set has just stored a wrappedValue of the caller's value next to a key that
\* holds a raw value put there by another path
C16_Witness ==
    /\ ret.op = "Set" /\ ret.err = NoErr /\ ret.key \in DOMAIN cache
    /\ IsWrapped(cache[ret.key]) /\ ValueOf(cache[ret.key]) = hist[ret.key].v
    /\ ValueOf(cache[ret.key]) \in CallerValues
    /\ \E k \in Keys \ {ret.key} :
          k \in DOMAIN cache /\ hist[k].kind = "foreign" /\ ~IsWrapped(cache[k])

\* the step ends the Get of p, and a Set has replaced the entry that Get read
EndsGetAfterSet(p) ==
    /\ get[p].pc = "check" /\ get'[p].pc = "idle"
    /\ hist[get[p].key].kind = "written"
    /\ [hist[get[p].key] EXCEPT !.exp = "no"] # [get[p].h EXCEPT !.exp = "no"]

\* C17 as stated: the delete a Get makes removes only the expired entry that Get
\* read: when a Set of the key has completed between the Get's read of the
\* store and its delete, what that Set stored is still there after the Get.
C17_CleanupSparesNewerEntry ==
    [][\A p \in Procs : EndsGetAfterSet(p) => SameEntry(get[p].key)]_vars

\* C18: expiry is enforced only when the key is read, and a read never extends
\* it: a Get that returns a value without error has called only the store's Get
\* and leaves the store as it was, and a Get that reads the entry of a Set after
\* more than its ttl returns the expired signal; what a key holds changes or
\* goes only by a Get, Set or Delete of that key, by Clear or by the other
\* path's write, so that an expired entry nobody reads stays in the store
\* whatever is done to other keys.
C18_ExpiryIsLazy ==
    /\ []((Returned /\ ret.err = NoErr) => ret.calls = <<"Get">>)
    /\ [][(ret'.op = "Get" /\ ret'.err = NoErr) => cache' = cache]_vars
    /\ []((ReadWritten /\ ret.t > ret.h.at + ret.h.ttl) => ret.err = ValueExpiredError)
    /\ [][\A k \in Keys :
            \/ SameEntry(k)
            \/ ret'.op \in {"Get", "Set", "Delete"} /\ ret'.key = k
            \/ ret'.op = "Clear"
            \/ hist'[k].kind = "foreign"]_vars

\* "b" expired long ago and was never read since: it is still stored, while
\* "a", which expired too, has just been read and cleaned up
C18_Witness ==
    /\ Returned /\ ret.key = "a" /\ ret.err = ValueExpiredError /\ ret.derr = NoErr
    /\ "a" \notin DOMAIN cache
    /\ hist["b"].kind = "written" /\ hist["b"].ttl > 0
    /\ now > hist["b"].at + hist["b"].ttl
    /\ "b" \in DOMAIN cache /\ ExpireAtOf(cache["b"]) < now

\* C19: a successful Set of a key that holds the entry of an earlier Set replaces
\* value and expireAt: the key then holds the new value with the expireAt of
\* this Set, time of the Set plus its ttl, whatever the earlier expireAt was; and
\* a Get that reads the entry returns the new value with no error up to that
\* expireAt and with the expired signal after it.
C19_SetReplacesEntry ==
    /\ [][\A k \in Keys :
            (ret'.op = "Set" /\ ret'.err = NoErr /\ ret'.key = k /\ hist[k].kind = "written")
                => /\ hist'[k].kind = "written" /\ hist'[k].at = now
                   /\ k \in DOMAIN cache'
                   /\ ValueOf(cache'[k]) = hist'[k].v
                   /\ ExpireAtOf(cache'[k]) = now + hist'[k].ttl]_vars
    /\ []((ReadWritten /\ ret.t <= ret.h.at + ret.h.ttl)
            => (ret.val = ret.h.v /\ ret.err = NoErr))
    /\ []((ReadWritten /\ ret.t > ret.h.at + ret.h.ttl)
            => (ret.val = ret.h.v /\ ret.err = ValueExpiredError))

\* a Set has just replaced an entry that was to expire later by one that
\* expires sooner
C19_Witness ==
    /\ ret.op = "Set" /\ ret.err = NoErr /\ ret.over = "later"
    /\ hist[ret.key].ttl > 0 /\ hist[ret.key].ttl < expiration
    /\ ValueOf(cache[ret.key]) = hist[ret.key].v
    /\ ExpireAtOf(cache[ret.key]) = hist[ret.key].at + hist[ret.key].ttl

\* a Set has just replaced an entry that had already expired
C19_ReplacedExpired ==
    /\ ret.op = "Set" /\ ret.err = NoErr /\ ret.over = "expired"
    /\ ValueOf(cache[ret.key]) = hist[ret.key].v
    /\ ExpireAtOf(cache[ret.key]) > now

\* a Set has just replaced an entry that was to expire sooner
C19_ReplacedSooner ==
    /\ ret.op = "Set" /\ ret.err = NoErr /\ ret.over = "sooner"
    /\ ExpireAtOf(cache[ret.key]) = hist[ret.key].at + hist[ret.key].ttl

\* C20 as stated: once a Get of k has returned the expired signal, no later Get
\* of k returns a value without error unless a Set of k came after that return.
C20_ExpiredUntilWritten ==
    (Returned /\ (ret.h.exp # "no" \/ ret.h.kind = "cleaned")) => ret.err # NoErr

\* C20 amended: once a Get of k has returned the expired signal, no later Get of
\* k returns a value without error unless a Set of k completed after that Get's
\* read of the store; until then a later Get returns the expired signal or the
\* store's own result.
C20_ExpiredUntilWrittenSinceRead ==
    (Returned /\ (ret.h.exp = "this" \/ ret.h.kind = "cleaned"))
        => /\ ret.err # NoErr
           /\ ret.serr # StoreError => ret.err \in {ValueExpiredError, MapStoreMiss}

\* a Get returned the expired signal and left the entry; the next Get of the
\* key returned the expired signal again and removed it
C20_Witness ==
    /\ Returned /\ ret.h.exp = "this" /\ ret.derr = NoErr
    /\ ret.err = ValueExpiredError /\ ret.val = ret.h.v
    /\ ret.key \notin DOMAIN cache

\* a Get returned the expired signal for an entry that a Set had replaced in
\* the meantime, and the next Get returned the new value without error
C20_LiveAfterExpired ==
    Returned /\ ret.h.exp = "older" /\ ret.err = NoErr /\ ret.val = ret.h.v

====
